---------------------------- MODULE Spec2Model ----------------------------
(***************************************************************************)
(* Micromorphic linear elasticity (src/python/micromorphic_linear_         *)
(* elasticity.py): the stiffness-tensor builders, the strain measures,     *)
(* the stress recovery and the tangent builder, driven the way the file's  *)
(* own unit tests and a host element routine drive them.                   *)
(*                                                                         *)
(* Scalars.  The code computes in binary floating point.  The properties   *)
(* verified here are algebraic identities of the index bookkeeping, so a   *)
(* scalar is modelled as an exact rational <<n, d>> (d > 0, lowest terms); *)
(* rounding is outside the model.  With exact arithmetic the grouping of   *)
(* a chain of "+=" does not change its value, so a loop nest that          *)
(* accumulates into one entry is written as the nested sum of its terms.   *)
(*                                                                         *)
(* Tensors.  A flattened order-n tensor is a function on 0 .. 3^n - 1,     *)
(* addressed through T2V exactly as the code addresses it.                 *)
(***************************************************************************)
EXTENDS Integers, Sequences, FiniteSets, TLC

VARIABLES pc,        \* the call that produced the current workspace
          PARAMS,    \* <<LAMBDA,MU,ETA,TAU,KAPPA,NU,SIGMA,TAUS>>
          AFOT, BFOT, CFOT, DFOT,   \* stiffness tensors (81,81,729,81)
          C, Phi, Gamma,            \* deformation measures (9,9,27)
          E_macro, E_micro,         \* strain measures (9,9)
          PK2, TERM1, TERM2,        \* results of compute_pk2_stress
          SIGMA,                    \* result of compute_symmetric_stress
          M,                        \* result of compute_ho_stress
          Cinv, dCinvdC,            \* argument / result of compute_dCinvdC
          tangents,                 \* outcome of compute_tangents
          exc,                      \* the exception a call ended with, or "none"
          result,                   \* outcome of the last call of the entry point
                                    \* or of a tangent sub-builder
          evals,                    \* calls of micromorphic_linear_elasticity so far
          builds                    \* runs of form_stiffness_tensors in those calls

vars == <<pc, PARAMS, AFOT, BFOT, CFOT, DFOT, C, Phi, Gamma, E_macro, E_micro,
          PK2, TERM1, TERM2, SIGMA, M, Cinv, dCinvdC, tangents, exc,
          result, evals, builds>>

---------------------------------------------------------------------------
(* Bounds of the model (not program constants).                            *)

\* parameter and component values range over -MaxVal .. MaxVal
MaxVal == 1
\* number of dense sample tensors (every component set) in each input pool
NumSeeds == 2
\* number of complete materials (PARAMS tuples) run through the pipeline
NumMaterials == 2
\* how many evaluations of the model one run makes
MaxEvals == 2

(* Program constant: the spatial dimension, the 3 of every range(3).       *)
Dim == 3

---------------------------------------------------------------------------
(* Exact rational scalars standing for the code's floats.                  *)

Abs(x) == IF x < 0 THEN -x ELSE x

RECURSIVE GCD(_, _)
GCD(a, b) == IF b = 0 THEN a ELSE GCD(b, a % b)

\* the rational n/d in lowest terms with a positive denominator (d # 0)
Rat(n, d) ==
    IF d = 1 THEN <<n, 1>>
    ELSE LET g == GCD(Abs(n), Abs(d))
             s == IF d < 0 THEN -1 ELSE 1
         IN  <<(s * n) \div g, (s * d) \div g>>

R(n) == <<n, 1>>
RZero == <<0, 1>>
ROne == <<1, 1>>

\* x + y
RAdd(x, y) ==
    IF x[2] = y[2] THEN Rat(x[1] + y[1], x[2])
    ELSE Rat(x[1] * y[2] + y[1] * x[2], x[2] * y[2])

\* -x
RNeg(x) == <<-x[1], x[2]>>

\* x - y
RSub(x, y) == RAdd(x, RNeg(y))

\* x * y
RMul(x, y) ==
    IF x[1] = 0 \/ y[1] = 0 THEN RZero
    ELSE Rat(x[1] * y[1], x[2] * y[2])

\* x / y  (y # 0)
RDiv(x, y) == Rat(x[1] * y[2], x[2] * y[1])

\* 0.5 * x
RHalf(x) == Rat(x[1], 2 * x[2])

\* acc = 0; for k in range(3): acc += f[k]
Range3 == 0 .. (Dim - 1)
RSum3(f) == RAdd(RAdd(RAdd(RZero, f[0]), f[1]), f[2])

---------------------------------------------------------------------------
(* Index mapper (hex8.T_to_V_mapping / hex8.V_to_T_mapping): row-major,    *)
(* first index slowest.                                                    *)

RECURSIVE T2Vupto(_, _, _)
T2Vupto(idx, dims, n) ==
    IF n = 0 THEN 0 ELSE T2Vupto(idx, dims, n - 1) * dims[n] + idx[n]

\* flat = i0*d^(n-1) + i1*d^(n-2) + ... + i(n-1)
T2V(idx, dims) == T2Vupto(idx, dims, Len(idx))

RECURSIVE V2Tupto(_, _, _)
V2Tupto(flat, dims, n) ==
    IF n = 0 THEN <<>>
    ELSE Append(V2Tupto(flat \div dims[n], dims, n - 1), flat % dims[n])

\* the index tuple of a flat position (inverse of T2V)
V2T(flat, dims) == V2Tupto(flat, dims, Len(dims))

Shape2 == <<Dim, Dim>>
Shape3 == <<Dim, Dim, Dim>>
Shape4 == <<Dim, Dim, Dim, Dim>>
Shape5 == <<Dim, Dim, Dim, Dim, Dim>>
Shape6 == <<Dim, Dim, Dim, Dim, Dim, Dim>>

\* np.eye(3)[a,b]
Eye(a, b) == IF a = b THEN ROne ELSE RZero

\* I = np.array([1,0,0,0,1,0,0,0,1]).astype(float)
I9 == [f \in 0 .. 8 |-> Eye(V2T(f, Shape2)[1], V2T(f, Shape2)[2])]

\* np.zeros([n,])
Zeros(n) == [f \in 0 .. (n - 1) |-> RZero]

---------------------------------------------------------------------------
(* Strain measures and dCinv/dC.                                           *)

\* slip: E_macro[index] = 0.5*C[index]-Iten[I,J]
compute_strain_measures_unparenthesized(Cm, Psi) ==
    <<[index \in 0 .. 8 |->
          LET IJ == V2T(index, Shape2)
          IN  RSub(RHalf(Cm[index]), Eye(IJ[1], IJ[2]))],
      [index \in 0 .. 8 |->
          LET IJ == V2T(index, Shape2)
          IN  RSub(Psi[index], Eye(IJ[1], IJ[2]))]>>

\* slip: E_micro[index] = Psi[index]-C[index] (the alternative the source's
\* comment history leaves open)
compute_strain_measures_micro_minus_C(Cm, Psi) ==
    <<[index \in 0 .. 8 |->
          LET IJ == V2T(index, Shape2)
          IN  RHalf(RSub(Cm[index], Eye(IJ[1], IJ[2])))],
      [index \in 0 .. 8 |-> RSub(Psi[index], Cm[index])]>>

\* E_macro[index] = 0.5*(C[index]-Iten[I,J]); E_micro[index] = Psi[index]-Iten[I,J]
compute_strain_measures(Cm, Psi) ==
    <<[index \in 0 .. 8 |->
          LET IJ == V2T(index, Shape2)
          IN  RHalf(RSub(Cm[index], Eye(IJ[1], IJ[2])))],
      [index \in 0 .. 8 |->
          LET IJ == V2T(index, Shape2)
          IN  RSub(Psi[index], Eye(IJ[1], IJ[2]))]>>

\* slip: LJ = T2V([J,L],[3,3])
compute_dCinvdC_JL(Ci) ==
    [IJKL \in 0 .. 80 |->
        LET t  == V2T(IJKL, Shape4)
            IK == T2V(<<t[1], t[3]>>, Shape2)
            LJ == T2V(<<t[2], t[4]>>, Shape2)
        IN  RMul(RNeg(Ci[IK]), Ci[LJ])]

\* dCinvdC[IJKL] = -Cinv[IK]*Cinv[LJ]
compute_dCinvdC(Ci) ==
    [IJKL \in 0 .. 80 |->
        LET t  == V2T(IJKL, Shape4)
            IK == T2V(<<t[1], t[3]>>, Shape2)
            LJ == T2V(<<t[4], t[2]>>, Shape2)
        IN  RMul(RNeg(Ci[IK]), Ci[LJ])]

---------------------------------------------------------------------------
(* Stiffness tensor builders.                                              *)

\* slip: the second MU product left out
form_A_one_shear_term(lam, mu) ==
    [KLMN \in 0 .. 80 |->
        LET t == V2T(KLMN, Shape4)
        IN  RAdd(RMul(RMul(lam, Eye(t[1], t[2])), Eye(t[3], t[4])),
                 RMul(mu, RMul(Eye(t[1], t[3]), Eye(t[2], t[4]))))]

\* slip: LAMBDA and MU exchanged
form_A_swapped_moduli(lam, mu) ==
    [KLMN \in 0 .. 80 |->
        LET t == V2T(KLMN, Shape4)
        IN  RAdd(RMul(RMul(mu, Eye(t[1], t[2])), Eye(t[3], t[4])),
                 RMul(lam, RAdd(RMul(Eye(t[1], t[3]), Eye(t[2], t[4])),
                                RMul(Eye(t[1], t[4]), Eye(t[2], t[3])))))]

\* A[KLMN] = LAMBDA*I[k,l]*I[m,n] + MU*(I[k,m]*I[l,n]+I[k,n]*I[l,m])
form_A(lam, mu) ==
    [KLMN \in 0 .. 80 |->
        LET t == V2T(KLMN, Shape4)
            k == t[1]
            l == t[2]
            m == t[3]
            n == t[4]
        IN  RAdd(RMul(RMul(lam, Eye(k, l)), Eye(m, n)),
                 RMul(mu, RAdd(RMul(Eye(k, m), Eye(l, n)),
                               RMul(Eye(k, n), Eye(l, m)))))]

\* B[KLMN] = (ETA-TAU)*I[k,l]*I[m,n]+KAPPA*I[k,m]*I[l,n]+NU*I[k,n]*I[l,m]
\*           -SIGMA*(I[k,m]*I[l,n]+I[k,n]*I[l,m])
form_B(eta, tau, kappa, nu, sigma) ==
    [KLMN \in 0 .. 80 |->
        LET t == V2T(KLMN, Shape4)
            k == t[1]
            l == t[2]
            m == t[3]
            n == t[4]
        IN  RSub(RAdd(RAdd(RMul(RMul(RSub(eta, tau), Eye(k, l)), Eye(m, n)),
                           RMul(RMul(kappa, Eye(k, m)), Eye(l, n))),
                      RMul(RMul(nu, Eye(k, n)), Eye(l, m))),
                 RMul(sigma, RAdd(RMul(Eye(k, m), Eye(l, n)),
                                  RMul(Eye(k, n), Eye(l, m)))))]

\* D[KLMN] = TAU*I[k,l]*I[m,n]+SIGMA*(I[k,m]*I[l,n]+I[k,n]*I[l,m])
form_D(tau, sigma) ==
    [KLMN \in 0 .. 80 |->
        LET t == V2T(KLMN, Shape4)
            k == t[1]
            l == t[2]
            m == t[3]
            n == t[4]
        IN  RAdd(RMul(RMul(tau, Eye(k, l)), Eye(m, n)),
                 RMul(sigma, RAdd(RMul(Eye(k, m), Eye(l, n)),
                                  RMul(Eye(k, n), Eye(l, m)))))]

\* the product I[a,b]*I[c,d]*I[e,f] of three Kronecker deltas
Eye3(a, b, c, d, e, f) == RMul(RMul(Eye(a, b), Eye(c, d)), Eye(e, f))

\* the 11-term right-hand side of C[KLMNPQ] = ..., TAUS = <<TAU1, ..., TAU11>>
form_C_entry(TAUS, k, l, m, n, p, q) ==
    LET s1  == RMul(TAUS[1], RAdd(Eye3(k, l, m, n, p, q), Eye3(k, q, l, m, n, p)))
        s2  == RMul(TAUS[2], RAdd(Eye3(k, l, m, p, n, q), Eye3(k, m, l, q, n, p)))
        s3  == RMul(TAUS[3], Eye3(k, l, m, q, n, p))
        s4  == RMul(TAUS[4], Eye3(k, n, l, m, p, q))
        s5  == RMul(TAUS[5], RAdd(Eye3(k, m, l, n, p, q), Eye3(k, p, l, m, n, q)))
        s6  == RMul(TAUS[6], Eye3(k, m, l, p, n, q))
        s7  == RMul(TAUS[7], Eye3(k, n, l, p, m, q))
        s8  == RMul(TAUS[8], RAdd(Eye3(k, p, l, q, m, n), Eye3(k, q, l, n, m, p)))
        s9  == RMul(TAUS[9], Eye3(k, n, l, q, m, p))
        s10 == RMul(TAUS[10], Eye3(k, p, l, n, m, q))
        s11 == RMul(TAUS[11], Eye3(k, q, l, p, m, n))
    IN  RAdd(RAdd(RAdd(RAdd(RAdd(RAdd(RAdd(RAdd(RAdd(RAdd(
          s1, s2), s3), s4), s5), s6), s7), s8), s9), s10), s11)

\* slip: KLMNPQ = T2V([k,l,m,n,q,p],[3,3,3,3,3,3])
form_C_misplaced(TAUS) ==
    [KLMNPQ \in 0 .. 728 |->
        LET t == V2T(KLMNPQ, Shape6)
        IN  form_C_entry(TAUS, t[1], t[2], t[3], t[4], t[6], t[5])]

\* for k, l, m, n, p, q in range(3): C[T2V([k,l,m,n,p,q])] = the 11-term sum
form_C(TAUS) ==
    [KLMNPQ \in 0 .. 728 |->
        LET t == V2T(KLMNPQ, Shape6)
        IN  form_C_entry(TAUS, t[1], t[2], t[3], t[4], t[5], t[6])]

\* LAMBDA,MU,ETA,TAU,KAPPA,NU,SIGMA,TAUS = PARAMS; returns AFOT,BFOT,CFOT,DFOT
form_stiffness_tensors(P) ==
    <<form_A(P[1], P[2]),
      form_B(P[3], P[4], P[5], P[6], P[7]),
      form_C(P[8]),
      form_D(P[4], P[7])>>

---------------------------------------------------------------------------
(* External collaborators from hex8 (3x3 inverse, symmetrization).         *)

\* entry (r,c) of a flattened 3x3 matrix
At(Mv, r, c) == Mv[T2V(<<r, c>>, Shape2)]

\* a*d - b*c
Det2(a, b, c, d) == RSub(RMul(a, d), RMul(b, c))

\* the determinant of a flattened 3x3 matrix
Det3(Mv) ==
    RAdd(RSub(RMul(At(Mv, 0, 0), Det2(At(Mv, 1, 1), At(Mv, 1, 2), At(Mv, 2, 1), At(Mv, 2, 2))),
              RMul(At(Mv, 0, 1), Det2(At(Mv, 1, 0), At(Mv, 1, 2), At(Mv, 2, 0), At(Mv, 2, 2)))),
         RMul(At(Mv, 0, 2), Det2(At(Mv, 1, 0), At(Mv, 1, 1), At(Mv, 2, 0), At(Mv, 2, 1))))

\* the cofactor of entry (r,c): the signed 2x2 minor on the other rows and columns
Cofactor(Mv, r, c) ==
    LET r1 == (r + 1) % Dim
        r2 == (r + 2) % Dim
        c1 == (c + 1) % Dim
        c2 == (c + 2) % Dim
    IN  Det2(At(Mv, r1, c1), At(Mv, r1, c2), At(Mv, r2, c1), At(Mv, r2, c2))

\* invert(M) -> (det, Minv) for a flattened 3x3 matrix with det # 0:
\* Minv[r,c] = cofactor(c,r)/det.  A singular M is a failure of the call.
invert_3x3_matrix_V(Mv) ==
    LET det == Det3(Mv)
        inv == [IJ \in 0 .. 8 |->
                   LET t == V2T(IJ, Shape2)
                   IN  RDiv(Cofactor(Mv, t[2], t[1]), det)]
    IN  <<det, inv>>

\* the symmetric part of a flattened 3x3 matrix: 0.5*(A + A^T)
get_symm_matrix_V(Av) ==
    [IJ \in 0 .. 8 |->
        LET t == V2T(IJ, Shape2)
        IN  RHalf(RAdd(Av[IJ], Av[T2V(<<t[2], t[1]>>, Shape2)]))]

---------------------------------------------------------------------------
(* Stress recovery.                                                        *)

\* TERM1[IJ] += AFOT[IJKL]*E_macro[KL] + DFOT[IJKL]*E_micro[KL]
pk2_TERM1(Af, Df, Ema, Emi) ==
    [IJ \in 0 .. 8 |->
        LET t == V2T(IJ, Shape2)
            i == t[1]
            j == t[2]
        IN  RSum3([k \in Range3 |-> RSum3([l \in Range3 |->
                LET IJKL == T2V(<<i, j, k, l>>, Shape4)
                    KL   == T2V(<<k, l>>, Shape2)
                IN  RAdd(RMul(Af[IJKL], Ema[KL]), RMul(Df[IJKL], Emi[KL]))])])]

\* slip: RQ = T2V([q,r],[3,3])
pk2_TERM2_strain_QR(Bf, Df, Ema, Emi, STRAIN_TERM, Ci) ==
    [IJ \in 0 .. 8 |->
        LET t == V2T(IJ, Shape2)
            i == t[1]
            j == t[2]
        IN  RSum3([k \in Range3 |-> RSum3([l \in Range3 |->
            RSum3([q \in Range3 |-> RSum3([r \in Range3 |->
                LET IQKL == T2V(<<i, q, k, l>>, Shape4)
                    KL   == T2V(<<k, l>>, Shape2)
                    RQ   == T2V(<<q, r>>, Shape2)
                    JR   == T2V(<<j, r>>, Shape2)
                IN  RMul(RMul(RAdd(RMul(Bf[IQKL], Emi[KL]), RMul(Df[IQKL], Ema[KL])),
                              STRAIN_TERM[RQ]), Ci[JR])])])])])]

\* TERM2[IJ] += (BFOT[IQKL]*E_micro[KL]+DFOT[IQKL]*E_macro[KL])*STRAIN_TERM[RQ]*Cinv[JR]
pk2_TERM2_strain(Bf, Df, Ema, Emi, STRAIN_TERM, Ci) ==
    [IJ \in 0 .. 8 |->
        LET t == V2T(IJ, Shape2)
            i == t[1]
            j == t[2]
        IN  RSum3([k \in Range3 |-> RSum3([l \in Range3 |->
            RSum3([q \in Range3 |-> RSum3([r \in Range3 |->
                LET IQKL == T2V(<<i, q, k, l>>, Shape4)
                    KL   == T2V(<<k, l>>, Shape2)
                    RQ   == T2V(<<r, q>>, Shape2)
                    JR   == T2V(<<j, r>>, Shape2)
                IN  RMul(RMul(RAdd(RMul(Bf[IQKL], Emi[KL]), RMul(Df[IQKL], Ema[KL])),
                              STRAIN_TERM[RQ]), Ci[JR])])])])])]

\* TERM2[IJ] += CFOT[IQRLMN]*Gamma[LMN]*Cinv[JS]*Gamma[SQR]
pk2_TERM2_gradient(Cf, Gam, Ci) ==
    [IJ \in 0 .. 8 |->
        LET t == V2T(IJ, Shape2)
            i == t[1]
            j == t[2]
        IN  RSum3([l \in Range3 |-> RSum3([m \in Range3 |-> RSum3([n \in Range3 |->
            RSum3([q \in Range3 |-> RSum3([r \in Range3 |-> RSum3([s \in Range3 |->
                LET LMN    == T2V(<<l, m, n>>, Shape3)
                    IQRLMN == T2V(<<i, q, r, l, m, n>>, Shape6)
                    JS     == T2V(<<j, s>>, Shape2)
                    SQR    == T2V(<<s, q, r>>, Shape3)
                IN  RMul(RMul(RMul(Cf[IQRLMN], Gam[LMN]), Ci[JS]), Gam[SQR])])])])])])])]

\* returns PK2,TERM1,TERM2 (C invertible; the inverse fails otherwise)
compute_pk2_stress(Af, Bf, Cf, Df, Ema, Emi, Cm, Gam) ==
    LET Ci   == invert_3x3_matrix_V(Cm)[2]
        STRAIN_TERM == [f \in 0 .. 8 |-> RAdd(Emi[f], I9[f])]
        T1   == pk2_TERM1(Af, Df, Ema, Emi)
        T2s  == pk2_TERM2_strain(Bf, Df, Ema, Emi, STRAIN_TERM, Ci)
        T2g  == pk2_TERM2_gradient(Cf, Gam, Ci)
        T2   == [IJ \in 0 .. 8 |-> RAdd(T2s[IJ], T2g[IJ])]
    IN  <<[IJ \in 0 .. 8 |-> RAdd(T1[IJ], T2[IJ])], T1, T2>>

\* slip: TERM2 used where TERM2_SYMM is meant
compute_symmetric_stress_unsymmetrized(term1, term2) ==
    [IJ \in 0 .. 8 |-> RAdd(term1[IJ], RMul(R(2), term2[IJ]))]

\* slip: the factor 2 left out
compute_symmetric_stress_undoubled(term1, term2) ==
    LET TERM2_SYMM == get_symm_matrix_V(term2)
    IN  [IJ \in 0 .. 8 |-> RAdd(term1[IJ], TERM2_SYMM[IJ])]

\* SIGMA[IJ] = TERM1[IJ]+2*TERM2_SYMM[IJ]
compute_symmetric_stress(term1, term2) ==
    LET TERM2_SYMM == get_symm_matrix_V(term2)
    IN  [IJ \in 0 .. 8 |-> RAdd(term1[IJ], RMul(R(2), TERM2_SYMM[IJ]))]

\* M[KLM] += CFOT[KLMNPQ]*Gamma[NPQ]
compute_ho_stress(Cf, Gam) ==
    [KLM \in 0 .. 26 |->
        LET t == V2T(KLM, Shape3)
            k == t[1]
            l == t[2]
            m == t[3]
        IN  RSum3([n \in Range3 |-> RSum3([p \in Range3 |-> RSum3([q \in Range3 |->
                LET KLMNPQ == T2V(<<k, l, m, n, p, q>>, Shape6)
                    NPQ    == T2V(<<n, p, q>>, Shape3)
                IN  RMul(Cf[KLMNPQ], Gam[NPQ])])])])]

---------------------------------------------------------------------------
(* Tangent builder.  The three sub-builders index their arguments as       *)
(* nested arrays (AFOT[I,J,O,P]), while the builders above return          *)
(* flattened ones; the loop variable I of the sub-builders rebinds their   *)
(* parameter I (the identity), and Gamma and S are never bound.  What a    *)
(* call does is therefore decided by the first statement that raises.      *)

\* X[a,b,...] on a tensor in the given layout: a flattened array takes one index
Subscript(layout) ==
    IF layout = "nested" THEN "ok" ELSE "IndexError"

\* compute_dCinvdC on Cinv in the given layout: line 54 stores -Cinv[IK]*Cinv[LJ]
\* into one entry of dCinvdC; rows of a nested Cinv do not fit one entry, and
\* a pair (det, Minv) has no entry 3 (I = J = K = 0, L = 1 gives LJ = 3)
dCinvdC_outcome(layout) ==
    IF layout = "flat" THEN "ok"
    ELSE IF layout = "pair" THEN "IndexError"
    ELSE "ValueError"

\* first iteration of the loops of compute_stress_derivatives_wrt_C
\* (I = J = O = P = 0, then Q = R = 0): line 240, line 247, line 251
compute_stress_derivatives_wrt_C(layout) ==
    IF dCinvdC_outcome(layout) # "ok"
    THEN [status |-> "raised", exc |-> dCinvdC_outcome(layout), line |-> 54]
    ELSE IF Subscript(layout) # "ok"
    THEN [status |-> "raised", exc |-> Subscript(layout), line |-> 247]
    ELSE \* I[R,Q] with I the loop variable, an int
         [status |-> "raised", exc |-> "TypeError", line |-> 251]

\* hex8.invert_3x3_matrix(C) hands back the pair (det, Minv) whatever the
\* layout of C; line 215 binds the whole pair to Cinv (line 132 takes its
\* entry [1])
invert_3x3_matrix(layout) == "pair"

\* compute_tangents going on with whatever a failed inversion left in Cinv
compute_tangents_inverse_unchecked(layout, Cm) ==
    IF dCinvdC_outcome(invert_3x3_matrix(layout)) # "ok"
    THEN [status |-> "raised", exc |-> dCinvdC_outcome(invert_3x3_matrix(layout)),
          line |-> 54]
    ELSE compute_stress_derivatives_wrt_C(layout)

\* Cinv = hex8.invert_3x3_matrix(C) (line 215); dCinvdC = compute_dCinvdC(Cinv)
\* (line 218), which raises at line 54 on the pair; the three sub-builders
\* (lines 221-223) are not reached
compute_tangents(layout, Cm) ==
    IF Det3(Cm) = RZero
    THEN [status |-> "raised", exc |-> "SingularMatrix", line |-> 215]
    ELSE IF dCinvdC_outcome(invert_3x3_matrix(layout)) # "ok"
    THEN [status |-> "raised", exc |-> dCinvdC_outcome(invert_3x3_matrix(layout)),
          line |-> 54]
    ELSE compute_stress_derivatives_wrt_C(layout)

\* first iteration of the loops of compute_stress_derivatives_wrt_Phi
\* (I = J = O = P = 0, then Q = R = 0): line 283, line 288
compute_stress_derivatives_wrt_Phi(layout) ==
    IF Subscript(layout) # "ok"
    THEN [status |-> "raised", exc |-> Subscript(layout), line |-> 283]
    ELSE \* I[R,Q] with I the loop variable, an int
         [status |-> "raised", exc |-> "TypeError", line |-> 288]

\* names the module binds at import: its imports, its functions, its test class
ModuleNames ==
    {"np", "hex8", "fd", "unittest", "os", "T2V", "V2T",
     "compute_strain_measures", "compute_dCinvdC", "form_stiffness_tensors",
     "form_A", "form_B", "form_C", "form_D", "compute_pk2_stress",
     "compute_symmetric_stress", "compute_ho_stress", "compute_tangents",
     "compute_stress_derivatives_wrt_C", "compute_stress_derivatives_wrt_Phi",
     "compute_stress_derivatives_wrt_Gamma", "micromorphic_linear_elasticity",
     "TestMicro_LE"}

\* a name read in a function body that is neither a parameter nor a local
Global(name, names) ==
    IF name \in names THEN "ok" ELSE "NameError"

\* first iteration of the loops of compute_stress_derivatives_wrt_Gamma
\* (all indices 0), line 315, left to right: CFOT[I,Q,R,T,U,], Cinv[J,S],
\* Gamma[S,Q,R] with Gamma a global; CFOT[I,Q,R,T,U,] has five subscripts,
\* so on a nested CFOT it is a row of three and the sum cannot be stored
\* into the one entry dSdGamma[I,J,T,U,V]
compute_stress_derivatives_wrt_Gamma(layout, names) ==
    IF Subscript(layout) # "ok"
    THEN [status |-> "raised", exc |-> Subscript(layout), line |-> 315]
    ELSE IF Global("Gamma", names) # "ok"
    THEN [status |-> "raised", exc |-> Global("Gamma", names), line |-> 315]
    ELSE [status |-> "raised", exc |-> "ValueError", line |-> 315]

\* the entry point, statement by statement; built counts the runs of
\* form_stiffness_tensors (line 326).  The tensors it builds are flattened,
\* and everything it computed is local and lost when a later line raises.
micromorphic_linear_elasticity(names, Cm) ==
    IF Global("get_deformation_measures", names) # "ok"
    THEN [status |-> "raised", exc |-> "NameError", line |-> 325, built |-> 0]
    ELSE IF Global("E_macro", names) # "ok" \/ Global("E_micro", names) # "ok"
    THEN [status |-> "raised", exc |-> "NameError", line |-> 327, built |-> 1]
    ELSE IF Det3(Cm) = RZero
    THEN [status |-> "raised", exc |-> "SingularMatrix", line |-> 132, built |-> 1]
    ELSE IF Global("compute_higher_order_stress", names) # "ok"
    THEN [status |-> "raised", exc |-> "NameError", line |-> 329, built |-> 1]
    ELSE [status |-> compute_tangents("flat", Cm).status,
          exc |-> compute_tangents("flat", Cm).exc,
          line |-> compute_tangents("flat", Cm).line,
          built |-> 1]

---------------------------------------------------------------------------
(* Inputs.                                                                 *)

Vals == (-MaxVal) .. MaxVal
RVals == {R(v) : v \in Vals}

\* sample data: component f of dense sample s, in -2 .. 2
Gen(s, f) == ((s * 5 + f * (s + 2) + ((f * f) % 7)) % 5) - 2

Dense(n, s) == [f \in 0 .. (n - 1) |-> R(Gen(s, f))]
Basis(n, g, v) == [f \in 0 .. (n - 1) |-> IF f = g THEN v ELSE RZero]

\* flattened tensors of n components: zero, one component set, dense samples
VecPool(n) ==
    {Zeros(n)}
    \cup {Basis(n, g, R(v)) : g \in 0 .. (n - 1), v \in Vals \ {0}}
    \cup {Dense(n, s) : s \in 1 .. NumSeeds}

\* the values of the unit tests (2.4, 6.7, 5.1, 5.6, 8.2, 2.)
TestScalars == {Rat(12, 5), Rat(67, 10), Rat(51, 10), Rat(28, 5), Rat(41, 5), R(2)}

\* TAUS = [4.5,1.3,9.2,1.1,6.4,2.4,7.11,5.5,1.5,3.8,2.7]
TestTAUS == <<Rat(9, 2), Rat(13, 10), Rat(46, 5), Rat(11, 10), Rat(32, 5), Rat(12, 5),
              Rat(711, 100), Rat(11, 2), Rat(3, 2), Rat(19, 5), Rat(27, 10)>>

TausPool ==
    {[i \in 1 .. 11 |-> RZero], TestTAUS}
    \cup {[i \in 1 .. 11 |-> IF i = g THEN R(v) ELSE RZero] : g \in 1 .. 11, v \in Vals \ {0}}
    \cup {[i \in 1 .. 11 |-> R(Gen(s, i))] : s \in 1 .. NumSeeds}

\* a complete material: seven moduli and eleven TAUs, each in 1 .. 5
Material(s) ==
    <<R(Gen(s, 1) + 3), R(Gen(s, 2) + 3), R(Gen(s, 3) + 3), R(Gen(s, 4) + 3),
      R(Gen(s, 5) + 3), R(Gen(s, 6) + 3), R(Gen(s, 7) + 3),
      [i \in 1 .. 11 |-> R(Gen(s, 7 + i) + 3)]>>

\* PARAMS of the unit tests: LAMBDA = 2.4, MU = 6.7, ETA = 2.4, TAU = 5.1,
\* KAPPA = 5.6, NU = 8.2, SIGMA = 2., TAUS as above
TestMaterial ==
    <<Rat(12, 5), Rat(67, 10), Rat(12, 5), Rat(51, 10), Rat(28, 5), Rat(41, 5), R(2), TestTAUS>>

MaterialPool == {TestMaterial} \cup {Material(s) : s \in 1 .. NumMaterials}

NoTaus == [i \in 1 .. 11 |-> RZero]

FromInts(t) == [f \in 0 .. (Len(t) - 1) |-> R(t[f + 1])]

\* right Cauchy-Green-like measures: identity, symmetric, upper triangular
\* (det 2), and a singular one
CPool == {I9,
          FromInts(<<2, 1, 0, 1, 1, 0, 0, 0, 1>>),
          FromInts(<<1, 2, 0, 0, 1, 1, 0, 0, 2>>),
          FromInts(<<1, 1, 0, 1, 1, 0, 0, 0, 1>>)}

\* evaluation points <<C, Phi, Gamma>>
DeformPool ==
    {<<c, phi, gam>> :
        c \in CPool,
        phi \in {I9} \cup {Dense(9, s) : s \in 1 .. NumSeeds},
        gam \in {Zeros(27)} \cup {Dense(27, s) : s \in 1 .. NumSeeds}}

\* global namespaces a call can run in: the module as written, and the module
\* after a host has bound more and more of the names it never binds itself
GlobalsPool ==
    {ModuleNames,
     ModuleNames \cup {"get_deformation_measures"},
     ModuleNames \cup {"get_deformation_measures", "E_macro", "E_micro"},
     ModuleNames \cup {"get_deformation_measures", "E_macro", "E_micro",
                       "compute_higher_order_stress", "Gamma"}}

None == <<>>

---------------------------------------------------------------------------
(* The driver.                                                             *)

Init ==
    /\ pc = "start"
    /\ PARAMS = None
    /\ AFOT = None /\ BFOT = None /\ CFOT = None /\ DFOT = None
    /\ C = None /\ Phi = None /\ Gamma = None
    /\ E_macro = None /\ E_micro = None
    /\ PK2 = None /\ TERM1 = None /\ TERM2 = None
    /\ SIGMA = None
    /\ M = None
    /\ Cinv = None /\ dCinvdC = None
    /\ tangents = None
    /\ exc = "none"
    /\ result = None
    /\ evals = 0
    /\ builds = 0

stiffness == <<PARAMS, AFOT, BFOT, CFOT, DFOT>>
deformation == <<C, Phi, Gamma>>
strains == <<E_macro, E_micro>>
stresses == <<PK2, TERM1, TERM2>>
entry == <<result, evals, builds>>

\* test_form_A: A = form_A(LAMBDA,MU)
Test_form_A ==
    /\ pc = "start"
    /\ \E lam \in RVals \cup TestScalars, mu \in RVals \cup TestScalars :
          /\ PARAMS' = <<lam, mu, RZero, RZero, RZero, RZero, RZero, NoTaus>>
          /\ AFOT' = form_A(lam, mu)
    /\ pc' = "form_A"
    /\ UNCHANGED entry
    /\ UNCHANGED <<BFOT, CFOT, DFOT, deformation, strains, stresses, SIGMA, M,
                   Cinv, dCinvdC, tangents, exc>>

\* test_form_B: B = form_B(ETA,TAU,KAPPA,NU,SIGMA)
Test_form_B ==
    /\ pc = "start"
    /\ \E eta \in RVals, tau \in RVals, kappa \in RVals, nu \in RVals, sigma \in RVals :
          /\ PARAMS' = <<RZero, RZero, eta, tau, kappa, nu, sigma, NoTaus>>
          /\ BFOT' = form_B(eta, tau, kappa, nu, sigma)
    /\ pc' = "form_B"
    /\ UNCHANGED entry
    /\ UNCHANGED <<AFOT, CFOT, DFOT, deformation, strains, stresses, SIGMA, M,
                   Cinv, dCinvdC, tangents, exc>>

\* test_form_C: C = form_C(TAUS)
Test_form_C ==
    /\ pc = "start"
    /\ \E taus \in TausPool :
          /\ PARAMS' = <<RZero, RZero, RZero, RZero, RZero, RZero, RZero, taus>>
          /\ CFOT' = form_C(taus)
    /\ pc' = "form_C"
    /\ UNCHANGED entry
    /\ UNCHANGED <<AFOT, BFOT, DFOT, deformation, strains, stresses, SIGMA, M,
                   Cinv, dCinvdC, tangents, exc>>

\* test_form_D: D = form_D(TAU,SIGMA)
Test_form_D ==
    /\ pc = "start"
    /\ \E tau \in RVals \cup TestScalars, sigma \in RVals \cup TestScalars :
          /\ PARAMS' = <<RZero, RZero, RZero, tau, RZero, RZero, sigma, NoTaus>>
          /\ DFOT' = form_D(tau, sigma)
    /\ pc' = "form_D"
    /\ UNCHANGED entry
    /\ UNCHANGED <<AFOT, BFOT, CFOT, deformation, strains, stresses, SIGMA, M,
                   Cinv, dCinvdC, tangents, exc>>

\* test_compute_strain_measures: E_macro,E_micro = compute_strain_measures(C,Phi)
Test_compute_strain_measures ==
    /\ pc = "start"
    /\ \E c \in VecPool(9), phi \in VecPool(9) :
          /\ C' = c
          /\ Phi' = phi
          /\ E_macro' = compute_strain_measures(c, phi)[1]
          /\ E_micro' = compute_strain_measures(c, phi)[2]
    /\ pc' = "strain_measures"
    /\ UNCHANGED entry
    /\ UNCHANGED <<stiffness, Gamma, stresses, SIGMA, M, Cinv, dCinvdC, tangents, exc>>

\* test_compute_dCinvdC: dCinvdC = compute_dCinvdC(Cinv), Cinv any 9 numbers
Test_compute_dCinvdC ==
    /\ pc = "start"
    /\ \E ci \in VecPool(9) \cup {FromInts(<<0, 1, 2, 3, 4, 5, 6, 7, 8>>)} :
          /\ Cinv' = ci
          /\ dCinvdC' = compute_dCinvdC(ci)
    /\ pc' = "dCinvdC"
    /\ UNCHANGED entry
    /\ UNCHANGED <<stiffness, deformation, strains, stresses, SIGMA, M, tangents, exc>>

\* SIGMA = compute_symmetric_stress(TERM1,TERM2) on any two order-2 tensors
Test_compute_symmetric_stress ==
    /\ pc = "start"
    /\ \E t1 \in VecPool(9), t2 \in VecPool(9) :
          /\ TERM1' = t1
          /\ TERM2' = t2
          /\ SIGMA' = compute_symmetric_stress(t1, t2)
    /\ pc' = "symmetric_stress"
    /\ UNCHANGED entry
    /\ UNCHANGED <<stiffness, deformation, strains, PK2, M, Cinv, dCinvdC, tangents, exc>>

\* compute_pk2_stress on stiffness tensors and strains without any symmetry
Test_compute_pk2_stress ==
    /\ pc = "start"
    /\ \E s \in 1 .. NumSeeds, c \in CPool :
          LET r == compute_pk2_stress(Dense(81, s), Dense(81, s + 1), Dense(729, s + 2),
                                      Dense(81, s + 3), Dense(9, s + 4), Dense(9, s + 5),
                                      c, Dense(27, s + 6))
          IN  /\ AFOT' = Dense(81, s)
              /\ BFOT' = Dense(81, s + 1)
              /\ CFOT' = Dense(729, s + 2)
              /\ DFOT' = Dense(81, s + 3)
              /\ E_macro' = Dense(9, s + 4)
              /\ E_micro' = Dense(9, s + 5)
              /\ C' = c
              /\ Gamma' = Dense(27, s + 6)
              /\ IF Det3(c) = RZero
                 THEN /\ pc' = "pk2_stress_raised"
                      /\ exc' = "SingularMatrix"
                      /\ UNCHANGED stresses
                 ELSE /\ pc' = "pk2_stress"
                      /\ exc' = "none"
                      /\ PK2' = r[1]
                      /\ TERM1' = r[2]
                      /\ TERM2' = r[3]
    /\ UNCHANGED entry
    /\ UNCHANGED <<PARAMS, Phi, SIGMA, M, Cinv, dCinvdC, tangents>>

\* AFOT,BFOT,CFOT,DFOT = form_stiffness_tensors(params)
Call_form_stiffness_tensors ==
    /\ pc = "start"
    /\ \E mat \in MaterialPool :
          LET r == form_stiffness_tensors(mat)
          IN  /\ PARAMS' = mat
              /\ AFOT' = r[1]
              /\ BFOT' = r[2]
              /\ CFOT' = r[3]
              /\ DFOT' = r[4]
    /\ pc' = "stiffness"
    /\ UNCHANGED entry
    /\ UNCHANGED <<deformation, strains, stresses, SIGMA, M, Cinv, dCinvdC, tangents, exc>>

\* an evaluation point: the caller's C, Phi, Gamma, then
\* E_macro,E_micro = compute_strain_measures(C,Phi)
Call_compute_strain_measures ==
    /\ pc = "stiffness"
    /\ \E d \in DeformPool :
          /\ C' = d[1]
          /\ Phi' = d[2]
          /\ Gamma' = d[3]
          /\ E_macro' = compute_strain_measures(d[1], d[2])[1]
          /\ E_micro' = compute_strain_measures(d[1], d[2])[2]
    /\ pc' = "strains"
    /\ UNCHANGED entry
    /\ UNCHANGED <<stiffness, stresses, SIGMA, M, Cinv, dCinvdC, tangents, exc>>

\* PK2,TERM1,TERM2 = compute_pk2_stress(AFOT,BFOT,CFOT,DFOT,E_macro,E_micro,C,Gamma)
Call_compute_pk2_stress ==
    /\ pc = "strains"
    /\ IF Det3(C) = RZero
       THEN /\ pc' = "pk2_raised"
            /\ exc' = "SingularMatrix"
            /\ UNCHANGED stresses
       ELSE LET r == compute_pk2_stress(AFOT, BFOT, CFOT, DFOT, E_macro, E_micro, C, Gamma)
            IN  /\ pc' = "pk2"
                /\ exc' = "none"
                /\ PK2' = r[1]
                /\ TERM1' = r[2]
                /\ TERM2' = r[3]
    /\ UNCHANGED entry
    /\ UNCHANGED <<stiffness, deformation, strains, SIGMA, M, Cinv, dCinvdC, tangents>>

\* SIGMA = compute_symmetric_stress(TERM1,TERM2)
Call_compute_symmetric_stress ==
    /\ pc = "pk2"
    /\ SIGMA' = compute_symmetric_stress(TERM1, TERM2)
    /\ pc' = "sigma"
    /\ UNCHANGED entry
    /\ UNCHANGED <<stiffness, deformation, strains, stresses, M, Cinv, dCinvdC, tangents, exc>>

\* M = compute_ho_stress(CFOT,Gamma)
Call_compute_ho_stress ==
    /\ pc = "sigma"
    /\ M' = compute_ho_stress(CFOT, Gamma)
    /\ pc' = "ho"
    /\ UNCHANGED entry
    /\ UNCHANGED <<stiffness, deformation, strains, stresses, SIGMA, Cinv, dCinvdC,
                   tangents, exc>>

\* ... = compute_tangents(AFOT,BFOT,CFOT,DFOT,E_macro,E_micro,C,Gamma), the
\* arguments passed flattened (as built) or reshaped to nested arrays
Call_compute_tangents ==
    /\ pc = "ho"
    /\ \E layout \in {"flat", "nested"} :
          /\ tangents' = compute_tangents(layout, C)
          /\ exc' = compute_tangents(layout, C).exc
    /\ pc' = "tangents"
    /\ UNCHANGED entry
    /\ UNCHANGED <<stiffness, deformation, strains, stresses, SIGMA, M, Cinv, dCinvdC>>

\* compute_tangents called on its own, the arguments flattened or nested
Test_compute_tangents ==
    /\ pc = "start"
    /\ \E layout \in {"flat", "nested"}, c \in CPool :
          /\ C' = c
          /\ tangents' = compute_tangents(layout, c)
          /\ exc' = compute_tangents(layout, c).exc
    /\ pc' = "compute_tangents"
    /\ UNCHANGED entry
    /\ UNCHANGED <<stiffness, Phi, Gamma, strains, stresses, SIGMA, M, Cinv, dCinvdC>>

\* compute_stress_derivatives_wrt_C called on its own
Test_compute_stress_derivatives_wrt_C ==
    /\ pc = "start"
    /\ \E layout \in {"flat", "nested"}, s \in 1 .. NumSeeds :
          /\ AFOT' = Dense(81, s)
          /\ result' = compute_stress_derivatives_wrt_C(layout)
          /\ exc' = compute_stress_derivatives_wrt_C(layout).exc
    /\ pc' = "wrt_C"
    /\ UNCHANGED <<PARAMS, BFOT, CFOT, DFOT, deformation, strains, stresses, SIGMA, M,
                   Cinv, dCinvdC, tangents, evals, builds>>

\* compute_stress_derivatives_wrt_Phi called on its own
Test_compute_stress_derivatives_wrt_Phi ==
    /\ pc = "start"
    /\ \E layout \in {"flat", "nested"}, s \in 1 .. NumSeeds :
          /\ DFOT' = Dense(81, s)
          /\ result' = compute_stress_derivatives_wrt_Phi(layout)
          /\ exc' = compute_stress_derivatives_wrt_Phi(layout).exc
    /\ pc' = "wrt_Phi"
    /\ UNCHANGED <<PARAMS, AFOT, BFOT, CFOT, deformation, strains, stresses, SIGMA, M,
                   Cinv, dCinvdC, tangents, evals, builds>>

\* compute_stress_derivatives_wrt_Gamma called on its own
Test_compute_stress_derivatives_wrt_Gamma ==
    /\ pc = "start"
    /\ \E layout \in {"flat", "nested"}, names \in GlobalsPool, s \in 1 .. NumSeeds :
          /\ CFOT' = Dense(729, s)
          /\ result' = compute_stress_derivatives_wrt_Gamma(layout, names)
          /\ exc' = compute_stress_derivatives_wrt_Gamma(layout, names).exc
    /\ pc' = "wrt_Gamma"
    /\ UNCHANGED <<PARAMS, AFOT, BFOT, DFOT, deformation, strains, stresses, SIGMA, M,
                   Cinv, dCinvdC, tangents, evals, builds>>

\* one evaluation: micromorphic_linear_elasticity(F,chi,grad_chi,params), the
\* deformation given by the measures C, Phi, Gamma it produces; a run evaluates
\* one material at up to MaxEvals points
Call_micromorphic_linear_elasticity ==
    /\ pc \in {"start", "model"}
    /\ evals < MaxEvals
    /\ \E mat \in MaterialPool, d \in DeformPool, names \in GlobalsPool :
          /\ pc = "model" => mat = PARAMS
          /\ PARAMS' = mat
          /\ C' = d[1]
          /\ Phi' = d[2]
          /\ Gamma' = d[3]
          /\ result' = micromorphic_linear_elasticity(names, d[1])
          /\ exc' = micromorphic_linear_elasticity(names, d[1]).exc
          /\ builds' = builds + micromorphic_linear_elasticity(names, d[1]).built
    /\ evals' = evals + 1
    /\ pc' = "model"
    /\ UNCHANGED <<AFOT, BFOT, CFOT, DFOT, strains, stresses, SIGMA, M, Cinv, dCinvdC,
                   tangents>>

Next ==
    \/ Test_form_A
    \/ Test_form_B
    \/ Test_form_C
    \/ Test_form_D
    \/ Test_compute_strain_measures
    \/ Test_compute_dCinvdC
    \/ Test_compute_symmetric_stress
    \/ Test_compute_pk2_stress
    \/ Call_form_stiffness_tensors
    \/ Call_compute_strain_measures
    \/ Call_compute_pk2_stress
    \/ Call_compute_symmetric_stress
    \/ Call_compute_ho_stress
    \/ Call_compute_tangents
    \/ Test_compute_tangents
    \/ Test_compute_stress_derivatives_wrt_C
    \/ Test_compute_stress_derivatives_wrt_Phi
    \/ Test_compute_stress_derivatives_wrt_Gamma
    \/ Call_micromorphic_linear_elasticity

Spec == Init /\ [][Next]_vars

---------------------------------------------------------------------------
(* Properties.  Components are read at the flat position the data model    *)
(* prescribes, i0*3^(n-1) + ... + i(n-1), written out for each order.      *)

Comp2(T, i, j) == T[3 * i + j]
Comp3(T, i, j, k) == T[9 * i + 3 * j + k]
Comp4(T, i, j, k, l) == T[27 * i + 9 * j + 3 * k + l]
Comp6(T, i, j, k, l, m, n) == T[243 * i + 81 * j + 27 * k + 9 * l + 3 * m + n]

\* delta[a,b]
Delta(a, b) == IF a = b THEN 1 ELSE 0

\* f[lo] + ... + f[hi]  (lo <= hi), summed by halves
RECURSIVE RSumRange(_, _, _)
RSumRange(f, lo, hi) ==
    IF lo = hi THEN f[lo]
    ELSE LET mid == (lo + hi) \div 2
         IN  RAdd(RSumRange(f, lo, mid), RSumRange(f, mid + 1, hi))

\* f[0] + f[1] + ... + f[n-1]  (n >= 1)
RSumTo(f, n) == RSumRange(f, 0, n - 1)

IsSymmetric2(T) == \A i \in Range3, j \in Range3 : Comp2(T, i, j) = Comp2(T, j, i)

\* a workspace in which compute_symmetric_stress has returned SIGMA
HasSigma == pc \in {"symmetric_stress", "sigma", "ho", "tangents"}

(* C1, as stated: for every pair of order-2 tensors term1 and term2,       *)
(* Sigma = compute_symmetric_stress(term1, term2) is symmetric,            *)
(* Sigma[i,j] = Sigma[j,i] for all i, j.                                   *)
C1_SigmaSymmetricForAnyTerms == HasSigma => IsSymmetric2(SIGMA)

(* C1, amended: Sigma is symmetric whenever term1 is symmetric (term2 is   *)
(* arbitrary), and term1 is symmetric, hence Sigma is, whenever the terms  *)
(* come from compute_pk2_stress on stiffness tensors built by              *)
(* form_stiffness_tensors.                                                 *)
C1_SigmaSymmetricForSymmetricTerm1 ==
    /\ (HasSigma /\ IsSymmetric2(TERM1)) => IsSymmetric2(SIGMA)
    /\ pc \in {"sigma", "ho", "tangents"} => IsSymmetric2(TERM1) /\ IsSymmetric2(SIGMA)

\* a symmetric non-zero term1 with a non-symmetric term2, and a pipeline result
\* with a non-symmetric TERM2
C1_Witness ==
    \/ /\ pc = "symmetric_stress"
       /\ IsSymmetric2(TERM1) /\ TERM1 # Zeros(9)
       /\ ~IsSymmetric2(TERM2)
       /\ SIGMA # Zeros(9)
    \/ /\ pc = "sigma"
       /\ ~IsSymmetric2(TERM2)
       /\ TERM1 # Zeros(9)

(* C2: for all term1, term2 and all i, j,                                  *)
(* Sigma[i,j] = term1[i,j] + term2[i,j] + term2[j,i]: the helper returns   *)
(* half the sum of term2 and its transpose, and the code doubles it.       *)
C2_SigmaFormula ==
    HasSigma =>
        \A i \in Range3, j \in Range3 :
            /\ Comp2(SIGMA, i, j)
                 = RAdd(RAdd(Comp2(TERM1, i, j), Comp2(TERM2, i, j)), Comp2(TERM2, j, i))
            /\ RMul(R(2), Comp2(get_symm_matrix_V(TERM2), i, j))
                 = RAdd(Comp2(TERM2, i, j), Comp2(TERM2, j, i))

\* a call on a non-symmetric term2 whose off-diagonal sum is odd (so that its
\* half is not an integer) and a non-zero term1
C2_Witness ==
    /\ pc = "symmetric_stress"
    /\ TERM1 # Zeros(9)
    /\ \E i \in Range3, j \in Range3 :
          /\ Comp2(TERM2, i, j) # Comp2(TERM2, j, i)
          /\ Comp2(get_symm_matrix_V(TERM2), i, j)[2] = 2

\* the claim's term1[i,j]
C3_term1(i, j) ==
    RSumTo([x \in 0 .. 8 |->
              LET k == x \div 3
                  l == x % 3
              IN  RAdd(RMul(Comp4(AFOT, i, j, k, l), Comp2(E_macro, k, l)),
                       RMul(Comp4(DFOT, i, j, k, l), Comp2(E_micro, k, l)))], 9)

\* the claim's term2[i,j], Ci the inverse of C
C3_term2(i, j, Ci) ==
    RAdd(RSumTo([x \in 0 .. 80 |->
                   LET k == x \div 27
                       l == (x \div 9) % 3
                       q == (x \div 3) % 3
                       r == x % 3
                   IN  RMul(RMul(RAdd(RMul(Comp4(BFOT, i, q, k, l), Comp2(E_micro, k, l)),
                                      RMul(Comp4(DFOT, i, q, k, l), Comp2(E_macro, k, l))),
                                 RAdd(Comp2(E_micro, r, q), R(Delta(r, q)))),
                            Comp2(Ci, j, r))], 81),
         RSumTo([x \in 0 .. 728 |->
                   LET l == x \div 243
                       m == (x \div 81) % 3
                       n == (x \div 27) % 3
                       q == (x \div 9) % 3
                       r == (x \div 3) % 3
                       s == x % 3
                   IN  RMul(RMul(RMul(Comp6(CFOT, i, q, r, l, m, n), Comp3(Gamma, l, m, n)),
                                 Comp2(Ci, j, s)),
                            Comp3(Gamma, s, q, r))], 729))

\* Ci is the inverse of the flattened 3x3 matrix Cm: Cm.Ci = I
IsInverse(Cm, Ci) ==
    \A i \in Range3, j \in Range3 :
        RSumTo([k \in Range3 |-> RMul(Comp2(Cm, i, k), Comp2(Ci, k, j))], 3) = R(Delta(i, j))

(* C3: for all stiffness tensors, strains, invertible C and Gamma,         *)
(* compute_pk2_stress returns (PK2, term1, term2) with                     *)
(* term1[i,j] = sum_kl A[i,j,k,l] E_macro[k,l] + D[i,j,k,l] E_micro[k,l],  *)
(* term2[i,j] = sum_klqr (B[i,q,k,l] E_micro[k,l] + D[i,q,k,l] E_macro[k,l]) *)
(*              (E_micro[r,q] + delta[r,q]) Cinv[j,r]                      *)
(*            + sum_lmnqrs C6[i,q,r,l,m,n] Gamma[l,m,n] Cinv[j,s] Gamma[s,q,r], *)
(* and PK2[i,j] = term1[i,j] + term2[i,j].                                 *)
C3_PK2Formula ==
    pc \in {"pk2_stress", "pk2"} =>
        LET Ci == invert_3x3_matrix_V(C)[2]
        IN  /\ IsInverse(C, Ci)
            /\ \A i \in Range3, j \in Range3 :
                  /\ Comp2(TERM1, i, j) = C3_term1(i, j)
                  /\ Comp2(TERM2, i, j) = C3_term2(i, j, Ci)
                  /\ Comp2(PK2, i, j) = RAdd(Comp2(TERM1, i, j), Comp2(TERM2, i, j))

\* a call on stiffness tensors without index symmetry, a C that is not the
\* identity, and non-zero, non-symmetric results
C3_Witness ==
    /\ pc = "pk2_stress"
    /\ C # I9
    /\ ~IsSymmetric2(TERM1)
    /\ ~IsSymmetric2(TERM2)
    /\ \E i \in Range3, j \in Range3 : Comp4(BFOT, i, j, 0, 1) # Comp4(BFOT, j, i, 0, 1)
    /\ PK2 # TERM1

\* workspaces whose stiffness tensors were built by form_stiffness_tensors
Formed == {"stiffness", "strains", "pk2", "pk2_raised", "sigma", "ho", "tangents"}
BuiltA == pc \in {"form_A"} \cup Formed
BuiltB == pc \in {"form_B"} \cup Formed
BuiltC == pc \in {"form_C"} \cup Formed
BuiltD == pc \in {"form_D"} \cup Formed

\* T[k,l,m,n] = T[l,k,m,n] and T[k,l,m,n] = T[k,l,n,m]
MinorSymmetric(T) ==
    \A k \in Range3, l \in Range3, m \in Range3, n \in Range3 :
        /\ Comp4(T, k, l, m, n) = Comp4(T, l, k, m, n)
        /\ Comp4(T, k, l, m, n) = Comp4(T, k, l, n, m)

(* C4, as stated: for all material parameters each of A = form_A(..),      *)
(* B = form_B(..), D = form_D(..) has both minor symmetries.               *)
C4_AllMinorSymmetric ==
    /\ BuiltA => MinorSymmetric(AFOT)
    /\ BuiltB => MinorSymmetric(BFOT)
    /\ BuiltD => MinorSymmetric(DFOT)

(* C4, amended: A and D have both minor symmetries for all parameters; B   *)
(* has them when KAPPA = NU and lacks them otherwise, because              *)
(* B[0,1,0,1] = KAPPA - SIGMA while B[1,0,0,1] = NU - SIGMA.               *)
C4_MinorSymmetryOfADAndOfBIffKappaIsNu ==
    /\ BuiltA => MinorSymmetric(AFOT)
    /\ BuiltD => MinorSymmetric(DFOT)
    /\ BuiltB =>
          /\ MinorSymmetric(BFOT) <=> (PARAMS[5] = PARAMS[6])
          /\ RSub(Comp4(BFOT, 0, 1, 0, 1), Comp4(BFOT, 1, 0, 0, 1))
               = RSub(PARAMS[5], PARAMS[6])

\* all three built from non-zero parameters, KAPPA # NU, B not minor symmetric
C4_Witness ==
    /\ pc = "stiffness"
    /\ PARAMS[5] # PARAMS[6]
    /\ ~MinorSymmetric(BFOT)
    /\ Comp4(AFOT, 0, 1, 0, 1) # RZero
    /\ Comp4(DFOT, 0, 1, 1, 0) # RZero

(* C5: for all TAU1..TAU11, C6 = form_C(TAUS) satisfies                    *)
(* C6[k,l,m,n,p,q] = C6[n,p,q,k,l,m] for all indices.                      *)
C5_C6LegSwapSymmetric ==
    BuiltC =>
        \A k \in Range3, l \in Range3, m \in Range3,
           n \in Range3, p \in Range3, q \in Range3 :
            Comp6(CFOT, k, l, m, n, p, q) = Comp6(CFOT, n, p, q, k, l, m)

\* a C6 with a non-zero entry whose swapped position is another position, and
\* that is not symmetric under every exchange (p with q)
C5_Witness ==
    /\ pc = "form_C"
    /\ Comp6(CFOT, 0, 0, 1, 1, 2, 2) # RZero
    /\ \E k \in Range3, l \in Range3, m \in Range3,
          n \in Range3, p \in Range3, q \in Range3 :
            Comp6(CFOT, k, l, m, n, p, q) # Comp6(CFOT, k, l, m, n, q, p)

\* the claim's value of A[k,l,m,n]
C6_A(lam, mu, k, l, m, n) ==
    RAdd(RMul(lam, R(Delta(k, l) * Delta(m, n))),
         RMul(mu, R(Delta(k, m) * Delta(l, n) + Delta(k, n) * Delta(l, m))))

(* C6: form_A(LAMBDA,MU) stores at the flat position of (k,l,m,n) the      *)
(* value LAMBDA d[k,l] d[m,n] + MU (d[k,m] d[l,n] + d[k,n] d[l,m]); in     *)
(* particular A[0,0,0,0] = LAMBDA + 2 MU, A[0,1,0,1] = A[0,1,1,0] = MU,    *)
(* and an entry matching none of the three delta patterns is 0.            *)
C6_AFormula ==
    BuiltA =>
        /\ DOMAIN AFOT = 0 .. 80
        /\ \A k \in Range3, l \in Range3, m \in Range3, n \in Range3 :
              /\ AFOT[27 * k + 9 * l + 3 * m + n] = C6_A(PARAMS[1], PARAMS[2], k, l, m, n)
              /\ (~(k = l /\ m = n) /\ ~(k = m /\ l = n) /\ ~(k = n /\ l = m))
                    => AFOT[27 * k + 9 * l + 3 * m + n] = RZero
        /\ AFOT[0] = RAdd(PARAMS[1], RMul(R(2), PARAMS[2]))
        /\ AFOT[10] = PARAMS[2]
        /\ AFOT[12] = PARAMS[2]

\* the unit test's material: LAMBDA = 2.4, MU = 6.7, A[0,0,0,0] = 15.8
C6_Witness ==
    /\ pc = "form_A"
    /\ PARAMS[1] = Rat(12, 5)
    /\ PARAMS[2] = Rat(67, 10)
    /\ AFOT[0] = Rat(79, 5)
    /\ AFOT[10] = Rat(67, 10)

IdentityDeformation == C = I9 /\ Phi = I9 /\ Gamma = Zeros(27)

(* C7: for every material, with identity deformation (C = I, Phi = I,      *)
(* Gamma = 0) the pipeline form_stiffness_tensors, compute_strain_measures,*)
(* compute_pk2_stress, compute_symmetric_stress, compute_ho_stress yields  *)
(* E_macro = E_micro = 0 and PK2 = Sigma = 0, M = 0.                       *)
C7_IdentityGivesZeroStress ==
    (pc \in {"strains", "pk2", "sigma", "ho", "tangents"} /\ IdentityDeformation) =>
        /\ E_macro = Zeros(9) /\ E_micro = Zeros(9)
        /\ pc # "strains" => PK2 = Zeros(9) /\ TERM1 = Zeros(9) /\ TERM2 = Zeros(9)
        /\ pc \in {"sigma", "ho", "tangents"} => SIGMA = Zeros(9)
        /\ pc \in {"ho", "tangents"} => M = Zeros(27)

\* the whole pipeline has run on the identity deformation of a material whose
\* stiffness tensors are not zero
C7_Witness ==
    /\ pc = "ho"
    /\ IdentityDeformation
    /\ AFOT[0] # RZero /\ BFOT[0] # RZero /\ CFOT[0] # RZero /\ DFOT[0] # RZero
    /\ M = Zeros(27) /\ SIGMA = Zeros(9)

\* a*T and T + U, componentwise
Scale(a, T) == [f \in DOMAIN T |-> RMul(a, T[f])]
Plus(T, U) == [f \in DOMAIN T |-> RAdd(T[f], U[f])]

\* the scalars and second arguments the linearity statements are tried on
ScaleSet == {R(a) : a \in (-MaxVal - 1) .. (MaxVal + 1)} \cup {Rat(1, 2)}
ProbePool == {<<Zeros(9), Zeros(9)>>, <<I9, I9>>}
             \cup {<<Dense(9, s), Dense(9, s + 1)>> : s \in 1 .. NumSeeds}

(* C8, as stated: compute_strain_measures is linear in C and Phi:          *)
(* f(a C1, a Phi1) = a f(C1, Phi1) and                                     *)
(* f(C1 + C2, Phi1 + Phi2) = f(C1, Phi1) + f(C2, Phi2), componentwise.     *)
C8_StrainMeasuresLinear ==
    pc \in {"strain_measures", "strains"} =>
        /\ \A a \in ScaleSet :
              compute_strain_measures(Scale(a, C), Scale(a, Phi))
                = <<Scale(a, E_macro), Scale(a, E_micro)>>
        /\ \A d \in ProbePool :
              compute_strain_measures(Plus(C, d[1]), Plus(Phi, d[2]))
                = <<Plus(E_macro, compute_strain_measures(d[1], d[2])[1]),
                    Plus(E_micro, compute_strain_measures(d[1], d[2])[2])>>

(* C8, amended: compute_strain_measures is affine, not linear:             *)
(* f(a C1, a Phi1) = a f(C1, Phi1) + (a - 1) (I/2, I) and                  *)
(* f(C1 + C2, Phi1 + Phi2) = f(C1, Phi1) + f(C2, Phi2) + (I/2, I).         *)
C8_StrainMeasuresAffine ==
    pc \in {"strain_measures", "strains"} =>
        /\ \A a \in ScaleSet :
              compute_strain_measures(Scale(a, C), Scale(a, Phi))
                = <<Plus(Scale(a, E_macro), Scale(RHalf(RSub(a, ROne)), I9)),
                    Plus(Scale(a, E_micro), Scale(RSub(a, ROne), I9))>>
        /\ \A d \in ProbePool :
              compute_strain_measures(Plus(C, d[1]), Plus(Phi, d[2]))
                = <<Plus(Plus(E_macro, compute_strain_measures(d[1], d[2])[1]),
                         Scale(RHalf(ROne), I9)),
                    Plus(Plus(E_micro, compute_strain_measures(d[1], d[2])[2]), I9)>>

\* a call on a dense C and a different dense Phi
C8_Witness ==
    /\ pc = "strain_measures"
    /\ \A f \in 0 .. 8 : C[f] # RZero
    /\ Phi # C /\ Phi # Zeros(9)
    /\ E_macro[1] = RHalf(C[1])
    /\ E_micro[0] = RSub(Phi[0], ROne)

(* C9: for every flattened Cinv and all I,J,K,L, compute_dCinvdC(Cinv)     *)
(* stores at the flat position of (I,J,K,L) the value -Cinv[I,K]*Cinv[L,J],*)
(* computed from Cinv alone: no C is given to the call.                    *)
C9_dCinvdCFormula ==
    pc = "dCinvdC" =>
        /\ DOMAIN dCinvdC = 0 .. 80
        /\ C = None
        /\ \A I \in Range3, J \in Range3, K \in Range3, L \in Range3 :
              dCinvdC[27 * I + 9 * J + 3 * K + L]
                = RNeg(RMul(Cinv[3 * I + K], Cinv[3 * L + J]))

\* the unit test's argument, Cinv = 0, 1, ..., 8
C9_Witness ==
    /\ pc = "dCinvdC"
    /\ \A f \in 0 .. 8 : Cinv[f] = R(f)
    /\ dCinvdC[27 * 1 + 9 * 2 + 3 * 0 + 1] = R(-(3 * 5))

(* C10: for every input with invertible C, compute_tangents returns all    *)
(* nine tangent tensors, with dM/dC and dM/dPhi all zero of order 5 (243   *)
(* components) and dM/dGamma equal to C6 componentwise (729 components).   *)
C10_TangentsReturned ==
    (pc = "tangents" /\ Det3(C) # RZero) =>
        /\ tangents.status = "returned"
        /\ Len(tangents.value) = 9
        /\ tangents.value[7] = Zeros(243)
        /\ tangents.value[8] = Zeros(243)
        /\ tangents.value[9] = CFOT
        /\ DOMAIN tangents.value[9] = 0 .. 728

(* C11: every call of the entry point micromorphic_linear_elasticity whose *)
(* deformation gives an invertible C completes without raising and returns *)
(* twelve results (PK2, Sigma, M and the nine tangents), the strain        *)
(* measures having been computed from C and Phi on the way.                *)
C11_EntryPointReturnsTwelve ==
    (pc = "model" /\ Det3(C) # RZero) =>
        /\ result.status = "returned"
        /\ exc = "none"
        /\ Len(result.value) = 12
        /\ E_macro = compute_strain_measures(C, Phi)[1]
        /\ E_micro = compute_strain_measures(C, Phi)[2]

\* the parameters of compute_stress_derivatives_wrt_Gamma (line 299) and the
\* objects its return statement names (line 318): two arrays it allocated
\* with np.zeros and its own parameter CFOT
Parameters_wrt_Gamma ==
    {"E_macro", "E_micro", "AFOT", "BFOT", "CFOT", "DFOT", "Cinv", "I"}
Returned_wrt_Gamma == <<"dSdGamma", "dSigmadGamma", "CFOT">>

(* C12: every function returns freshly allocated tensors and mutates no    *)
(* input: a call of compute_stress_derivatives_wrt_Gamma returns           *)
(* dS/dGamma, dSigma/dGamma and dM/dGamma, none of them the storage of one *)
(* of its arguments, so that writing into the returned dM/dGamma leaves    *)
(* C6 as it was; and the call itself leaves C6 as it was.                  *)
C12_ReturnedTensorsFresh ==
    pc = "wrt_Gamma" =>
        /\ result.status = "returned"
        /\ \A k \in DOMAIN Returned_wrt_Gamma :
              Returned_wrt_Gamma[k] \notin Parameters_wrt_Gamma
        /\ \E s \in 1 .. NumSeeds : CFOT = Dense(729, s)

(* C13: over any sequence of evaluations of one material the stiffness     *)
(* tensors are built exactly once, by one run of form_stiffness_tensors,   *)
(* and every later evaluation reuses them.                                 *)
C13_StiffnessBuiltOnce ==
    (pc = "model" /\ evals >= 1) => builds = 1

\* the states after a call of compute_pk2_stress, alone or in the pipeline
AfterPK2 == {"pk2_stress", "pk2_stress_raised", "pk2", "pk2_raised", "sigma", "ho",
             "tangents"}

(* C14: when C is singular, so that the 3x3 inversion fails,               *)
(* compute_pk2_stress and compute_tangents end with that failure and with  *)
(* nothing else: no PK2, TERM1, TERM2 and no tangent is returned, nothing  *)
(* downstream of them is computed, and the failure is the inversion's own  *)
(* (raised at the line of the inversion), not one met later with a Cinv    *)
(* that was never defined.                                                 *)
C14_SingularCPropagates ==
    /\ (pc \in AfterPK2 /\ Det3(C) = RZero) =>
          /\ pc \in {"pk2_stress_raised", "pk2_raised"}
          /\ exc = "SingularMatrix"
          /\ PK2 = None /\ TERM1 = None /\ TERM2 = None
          /\ SIGMA = None /\ M = None /\ tangents = None
    /\ (pc \in AfterPK2 /\ Det3(C) # RZero) =>
          /\ pc \notin {"pk2_stress_raised", "pk2_raised"}
          /\ exc # "SingularMatrix"
    /\ (pc = "compute_tangents" /\ Det3(C) = RZero) =>
          /\ tangents.status = "raised"
          /\ tangents.exc = "SingularMatrix"
          /\ tangents.line = 215
          /\ exc = "SingularMatrix"
    /\ (pc = "compute_tangents" /\ Det3(C) # RZero) =>
          tangents.exc # "SingularMatrix"

\* compute_tangents was called with the singular C of the pool
C14_Witness ==
    /\ pc = "compute_tangents"
    /\ C = FromInts(<<1, 1, 0, 1, 1, 0, 0, 0, 1>>)
    /\ Det3(C) = RZero
    /\ tangents.exc = "SingularMatrix"

Comp5(T, i, j, k, l, m) == T[81 * i + 27 * j + 9 * k + 3 * l + m]

(* C15: each tangent sub-builder returns, and in what it returns the Sigma *)
(* tangent is the symmetrization of the finished term for all (I,J), also  *)
(* for J > I:  dSigma/dC[I,J,O,P] = TERM1[I,J,O,P] + TERM2[I,J,O,P] +      *)
(* TERM2[J,I,O,P],  dSigma/dPhi[I,J,O,P] = D[I,J,O,P] + TERM2[I,J,O,P] +   *)
(* TERM2[J,I,O,P] (that is dS/dPhi[I,J,O,P] + dS/dPhi[J,I,O,P] -           *)
(* D[J,I,O,P]), and dSigma/dGamma[I,J,T,U,V] = dS/dGamma[I,J,T,U,V] +      *)
(* dS/dGamma[J,I,T,U,V], with TERM2 and dS/dGamma at their final values.   *)
C15_SigmaTangentsSymmetrized ==
    /\ pc = "wrt_C" =>
          /\ result.status = "returned"
          /\ \A i \in Range3, j \in Range3, o \in Range3, p \in Range3 :
                Comp4(result.value[2], i, j, o, p) =
                    RAdd(Comp4(result.TERM1, i, j, o, p),
                         RAdd(Comp4(result.TERM2, i, j, o, p),
                              Comp4(result.TERM2, j, i, o, p)))
    /\ pc = "wrt_Phi" =>
          /\ result.status = "returned"
          /\ \A i \in Range3, j \in Range3, o \in Range3, p \in Range3 :
                Comp4(result.value[2], i, j, o, p) =
                    RSub(RAdd(Comp4(result.value[1], i, j, o, p),
                              Comp4(result.value[1], j, i, o, p)),
                         Comp4(DFOT, j, i, o, p))
    /\ pc = "wrt_Gamma" =>
          /\ result.status = "returned"
          /\ \A i \in Range3, j \in Range3, t \in Range3, u \in Range3, v \in Range3 :
                Comp5(result.value[2], i, j, t, u, v) =
                    RAdd(Comp5(result.value[1], i, j, t, u, v),
                         Comp5(result.value[1], j, i, t, u, v))

=============================================================================
